---- MODULE Spec2Model ----
(***************************************************************************)
(* Model of the L402 skill server (src/api/server.py): the payment store   *)
(* and its file mirror, invoice creation (LNbits or mock), the macaroon    *)
(* token codec, and the two gated endpoints with the status and stats      *)
(* endpoints.                                                              *)
(*                                                                         *)
(* Time.  time.time() is a float; the model's clock counts ticks of        *)
(* 1/Scale second, so int(time.time()) is now \div Scale.                  *)
(*                                                                         *)
(* Cryptography.  SHA-256 and HMAC-SHA256 are ideal: a digest is the       *)
(* record of what was hashed, so equal digests mean equal inputs.          *)
(***************************************************************************)
EXTENDS Integers, Sequences, FiniteSets, TLC

VARIABLES
    MOCK_MODE,       \* configuration: mock invoices instead of LNbits
    SERVER_SECRET,   \* the HMAC key of this process
    now,             \* the clock, in ticks of 1/Scale second
    ticks,           \* how many times the clock has advanced
    payment_store,   \* the dict payment_hash -> record, in insertion order
    file,            \* PAYMENT_STORE_FILE: [exists, data]
    issued,          \* invoices created so far (LNbits numbers its hashes)
    minted,          \* macaroons handed out in 402 responses
    resp,            \* the request handled by the last step and its response
    threads          \* the request threads in flight, when requests overlap

vars == <<MOCK_MODE, SERVER_SECRET, now, ticks, payment_store, file, issued,
          minted, resp, threads>>

-----------------------------------------------------------------------------
(* Bounds of the model *)

MaxInvoices == 2
MaxTicks == 2
NThreads == 2
Scale == 2

(* Program constants *)

TTL == 86400

\* One skill (a 50-sat knowledge block) stands for the seventeen.
SKILL_REGISTRY == ("K01" :> 50)

\* One of the four 150-sat trajectories.
TRAJECTORY_REGISTRY == ("T01" :> 150)

\* The ids requests carry, and str.upper() on them.
RequestIds == {"k01", "T01", "x99"}

Upper(id) ==
    CASE id = "k01" -> "K01"
      [] id = "x99" -> "X99"
      [] OTHER -> id

\* The clock advances by the smallest step or by a whole TTL.
Jumps == {1, TTL * Scale}

-----------------------------------------------------------------------------
(* Digests, preimages, signatures *)

NoMemo == [ep |-> "", id |-> ""]

\* "Overcome Stress Skill: <id> - <title>" / "Overcome Stress Trajectory: ...":
\* the memo names the endpoint and the resource.
Memo(ep, id) == [ep |-> ep, id |-> id]

NoHash == [kind |-> "none", memo |-> NoMemo, t |-> 0, n |-> 0]

\* A payment hash LNbits generated for its n-th invoice.
LnHash(n) == [kind |-> "ln", memo |-> NoMemo, t |-> 0, n |-> n]

\* hashlib.sha256(f"{memo}{time.time()}".encode()).hexdigest()
Sha256OfText(memo, t) == [kind |-> "sha", memo |-> memo, t |-> t, n |-> 0]

\* A well-formed hash the server never issued.
ForeignHash == [kind |-> "foreign", memo |-> NoMemo, t |-> 0, n |-> 0]

\* The digest of bytes that are nobody's preimage.
UnrelatedDigest == [kind |-> "unrelated", memo |-> NoMemo, t |-> 0, n |-> 0]

\* The hex string whose bytes hash to h.
PreimageOf(h) == [kind |-> "pre", of |-> h]

\* hashlib.sha256(mock_hash.encode()).hexdigest(): the digest of the hash's text.
Sha256OfHashText(h) == [kind |-> "shaOfHashText", of |-> h]

JunkHex == [kind |-> "hex", of |-> NoHash]

NonHex == [kind |-> "nonhex", of |-> NoHash]

\* bytes.fromhex(p) succeeds.
IsHex(p) == p.kind # "nonhex"

\* hashlib.sha256(bytes.fromhex(p)).hexdigest()
Sha256OfHex(p) == IF p.kind = "pre" THEN p.of ELSE UnrelatedDigest

\* hmac.new(key, f"{ph}:{rid}:{ts}", sha256).hexdigest()
HMAC(key, ph, rid, ts) ==
    [kind |-> "mac", key |-> key, ph |-> ph, rid |-> rid, ts |-> ts]

JunkSig == [kind |-> "junk", key |-> 0, ph |-> NoHash, rid |-> "", ts |-> 0]

NonAsciiSig == [kind |-> "nonascii", key |-> 0, ph |-> NoHash, rid |-> "", ts |-> 0]

\* hmac.compare_digest raises TypeError on a str with non-ASCII characters.
IsAscii(sig) == sig.kind # "nonascii"

-----------------------------------------------------------------------------
(* The payment store: an insertion-ordered dict *)

Entry(h, rid, paid, created, amount) ==
    [h |-> h, skill_id |-> rid, paid |-> paid, created |-> created, amount |-> amount]

Keys(store) == {store[i].h : i \in 1..Len(store)}

IndexOf(store, h) == CHOOSE i \in 1..Len(store) : store[i].h = h

StoreGet(store, h) == store[IndexOf(store, h)]

\* payment_store[h] = record: a new key is appended, an old one keeps its place.
StorePut(store, e) ==
    IF e.h \in Keys(store)
    THEN [store EXCEPT ![IndexOf(store, e.h)] = e]
    ELSE Append(store, e)

RECURSIVE Filter(_, _)
Filter(store, keep) ==
    IF store = <<>> THEN <<>>
    ELSE IF Head(store).h \in keep
         THEN <<Head(store)>> \o Filter(Tail(store), keep)
         ELSE Filter(Tail(store), keep)

\* json.dump(payment_store, f): the records in order, then the closing brace.
EndMark == Entry(NoHash, "}", FALSE, 0, 0)

Dump(store) == store \o <<EndMark>>

WellFormed(data) ==
    /\ Len(data) >= 1
    /\ data[Len(data)] = EndMark
    /\ \A i \in 1..(Len(data) - 1) : data[i] # EndMark

\* json.load(f) of a well-formed file.
Parse(data) == SubSeq(data, 1, Len(data) - 1)

NoFile == [exists |-> FALSE, data |-> <<>>]

save_payments(store) == [exists |-> TRUE, data |-> Dump(store)]

load_payments(f, store) ==
    IF ~f.exists THEN store
    ELSE IF WellFormed(f.data) THEN Parse(f.data)
    ELSE <<>>

\* A sweep that deletes records one second before they reach 86400 s.
ExpiredKeys_early(store, t) ==
    {store[i].h : i \in {j \in 1..Len(store) : t - store[j].created > (TTL - 1) * Scale}}

\* A sweep that also deletes the records of exactly 86400 s.
ExpiredKeys_at_ttl(store, t) ==
    {store[i].h : i \in {j \in 1..Len(store) : t - store[j].created >= TTL * Scale}}

\* The keys cleanup_expired_payments deletes at time t.
ExpiredKeys(store, t) ==
    {store[i].h : i \in {j \in 1..Len(store) : t - store[j].created > TTL * Scale}}

cleanup_store(store, t) == Filter(store, Keys(store) \ ExpiredKeys(store, t))

\* A sweep that never writes the file.
cleanup_file_unsaved(store, f, t) == f

cleanup_file(store, f, t) ==
    IF ExpiredKeys(store, t) # {} THEN save_payments(cleanup_store(store, t)) ELSE f

-----------------------------------------------------------------------------
(* Invoices *)

NoInvoice == [ok |-> FALSE, payment_hash |-> NoHash, amount |-> 0]

\* What LNbits does during one request: "down" (unreachable, an HTTP error
\* or an unparseable reply), or it answers, and reports the payment asked
\* about as "paid" or "unpaid".  The mock never calls it ("n/a").
LnAnswers(mock) == IF mock THEN {"n/a"} ELSE {"down", "unpaid", "paid"}

\* create_invoice: the mock derives the hash from the memo and the clock;
\* LNbits answers with a fresh hash, or the call fails and the function
\* returns None.
\* create_invoice that answers with an invoice also when the backend is down.
create_invoice_regardless(amount_sats, memo, mock, t, n, ln) ==
    [ok |-> TRUE,
     payment_hash |-> IF mock THEN Sha256OfText(memo, t) ELSE LnHash(n + 1),
     amount |-> amount_sats]

create_invoice(amount_sats, memo, mock, t, n, ln) ==
    IF mock
    THEN [ok |-> TRUE, payment_hash |-> Sha256OfText(memo, t), amount |-> amount_sats]
    ELSE IF ln # "down"
         THEN [ok |-> TRUE, payment_hash |-> LnHash(n + 1), amount |-> amount_sats]
         ELSE NoInvoice

\* The mock invoice's "_mock_preimage".
mock_preimage(h) == Sha256OfHashText(h)

\* A status check that takes an unreachable backend for a paid invoice.
check_invoice_paid_open(h, mock, store, ln) ==
    IF mock
    THEN IF h \in Keys(store) THEN StoreGet(store, h).paid ELSE FALSE
    ELSE ln \in {"paid", "down"}

\* check_invoice_paid: the stored flag in mock mode, the backend's answer
\* otherwise (False when the call fails).
check_invoice_paid(h, mock, store, ln) ==
    IF mock
    THEN IF h \in Keys(store) THEN StoreGet(store, h).paid ELSE FALSE
    ELSE ln = "paid"

-----------------------------------------------------------------------------
(* Macaroons *)

Token(ph, rid, ts, sig) ==
    [payment_hash |-> ph, skill_id |-> rid, timestamp |-> ts, signature |-> sig]

NoToken == Token(NoHash, "", 0, JunkSig)

\* create_macaroon: payload "ph:skill_id:int(time.time())" and its HMAC.
create_macaroon(key, ph, rid, t) ==
    Token(ph, rid, t \div Scale, HMAC(key, ph, rid, t \div Scale))

\* An Authorization header.  form says how far it parses:
\*   "absent"   no header (or an empty one)
\*   "noscheme" does not start with "L402 "
\*   "nocolon"  "L402 x" with no ":" after the scheme
\*   "badb64"   the macaroon part does not base64/utf-8 decode
\*   "fields"   decodes, but not to four ":"-separated fields
\*   "l402"     decodes to the four fields of tok, followed by preimage pre
Cred(form, tok, pre) == [form |-> form, tok |-> tok, pre |-> pre]

NoCred == Cred("absent", NoToken, JunkHex)

Fail(e) == [valid |-> FALSE, error |-> e, skill_id |-> "", payment_hash |-> NoHash]

\* An expiry test that also refuses a token of exactly 86400 s.
TokenExpired_at_ttl(t, ts) == t - ts * Scale >= TTL * Scale

\* An expiry test that lets every token through.
TokenExpired_never(t, ts) == FALSE

\* time.time() - int(timestamp) > 86400
TokenExpired(t, ts) == t - ts * Scale > TTL * Scale

\* hmac.compare_digest(signature, expected_sig) on two ASCII strings.
SignatureMatches(sig, expected_sig) == sig = expected_sig

\* computed_hash != payment_hash, and the fallback found nothing.
PaymentUnproven(pre, ph, paid) == Sha256OfHex(pre) # ph /\ ~paid

verify_l402_auth(cred, key, t, mock, store, ln) ==
    IF cred.form \in {"absent", "noscheme"} THEN Fail("Missing L402 authorization")
    ELSE IF cred.form = "nocolon" THEN Fail("Invalid L402 format")
    ELSE IF cred.form = "badb64" THEN Fail("Verification failed")
    ELSE IF cred.form = "fields" THEN Fail("Invalid macaroon structure")
    ELSE LET tok == cred.tok
             expected_sig == HMAC(key, tok.payment_hash, tok.skill_id, tok.timestamp)
         IN  IF ~IsAscii(tok.signature) THEN Fail("Verification failed")
             ELSE IF ~SignatureMatches(tok.signature, expected_sig)
                  THEN Fail("Invalid macaroon signature")
             ELSE IF ~IsHex(cred.pre) THEN Fail("Verification failed")
             ELSE IF PaymentUnproven(cred.pre, tok.payment_hash,
                        check_invoice_paid(tok.payment_hash, mock, store, ln))
                  THEN Fail("Payment not verified")
             ELSE IF TokenExpired(t, tok.timestamp) THEN Fail("Token expired")
             ELSE [valid |-> TRUE, error |-> "", skill_id |-> tok.skill_id,
                   payment_hash |-> tok.payment_hash]

\* Whether verify_l402_auth gets as far as asking the backend.
AsksBackend(cred, key, mock) ==
    /\ ~mock
    /\ cred.form = "l402"
    /\ IsAscii(cred.tok.signature)
    /\ cred.tok.signature = HMAC(key, cred.tok.payment_hash, cred.tok.skill_id, cred.tok.timestamp)
    /\ IsHex(cred.pre)
    /\ Sha256OfHex(cred.pre) # cred.tok.payment_hash

-----------------------------------------------------------------------------
(* Requests and responses *)

\* The response of the request handled by the last step.  backend and
\* content record a collaborator's answer when the handler consulted it.
NoResp ==
    [ep |-> "none", id |-> "", cred |-> NoCred, status |-> 0, error |-> "",
     payment_hash |-> NoHash, macaroon |-> NoToken, amount_sats |-> 0,
     paid |-> FALSE, count |-> 0, backend |-> "n/a", content |-> "n/a"]

Registered == DOMAIN SKILL_REGISTRY \cup DOMAIN TRAJECTORY_REGISTRY

\* The registry an endpoint looks its ids up in.
RegistryOf(ep) == IF ep = "skill" THEN SKILL_REGISTRY ELSE TRAJECTORY_REGISTRY

\* A key that is not the server's.
AttackerKey == "guess"

\* What a client can make of a macaroon it holds by changing one field.
Tamperings(tok) ==
    {[tok EXCEPT !.skill_id = r] : r \in Registered \ {tok.skill_id}}
    \cup {[tok EXCEPT !.timestamp = ts] : ts \in {now \div Scale} \ {tok.timestamp}}
    \cup {[tok EXCEPT !.payment_hash = h] :
            h \in (Keys(payment_store) \cup {ForeignHash}) \ {tok.payment_hash}}
    \cup {[tok EXCEPT !.signature = s] :
            s \in ({JunkSig, NonAsciiSig,
                    HMAC(AttackerKey, tok.payment_hash, tok.skill_id, tok.timestamp)}
                   \cup {u.signature : u \in minted}) \ {tok.signature}}

Malformed ==
    {Cred(f, NoToken, JunkHex) : f \in {"noscheme", "nocolon", "badb64", "fields"}}

\* The preimages a client may send along: the true one, other hex (in
\* mock mode the invoice's "_mock_preimage"), and text that is not hex.
Honest(tok) ==
    {Cred("l402", tok, pre) :
        pre \in {PreimageOf(tok.payment_hash),
                 IF MOCK_MODE THEN mock_preimage(tok.payment_hash) ELSE JunkHex,
                 NonHex}}

Forged(tok) ==
    {Cred("l402", tok, pre) : pre \in {PreimageOf(tok.payment_hash), JunkHex}}

\* The Authorization headers of the model's clients for a request of
\* resource rid at the endpoint of registry reg: a malformed one, a macaroon
\* as it was handed out, or a tampered one that names the resource asked
\* for.  A request for an id the registry does not hold carries one of a
\* few headers.
CredsFor(reg, rid) ==
    IF rid \in DOMAIN reg
    THEN Malformed
         \cup UNION {Honest(m) : m \in minted}
         \cup UNION {UNION {Forged(tok) : tok \in {x \in Tamperings(m) : x.skill_id = rid}} :
                        m \in minted}
    ELSE {Cred("noscheme", NoToken, JunkHex)}
         \cup {Cred("l402", tok, PreimageOf(tok.payment_hash)) : tok \in minted}

-----------------------------------------------------------------------------
(* Handlers *)

\* Whether the call to LNbits that creates the invoice got its answer.
Reached(mock, ln) == IF mock THEN "n/a" ELSE IF ln = "down" THEN "down" ELSE "up"

\* The no-credential branch of both gated endpoints: create the invoice,
\* mint the macaroon, record the pending payment, flush, answer 402.
Challenge(ep, rawId, rid, price, ln) ==
    LET invoice == create_invoice(price, Memo(ep, rid), MOCK_MODE, now, issued, ln)
        macaroon == create_macaroon(SERVER_SECRET, invoice.payment_hash, rid, now)
        store2 == StorePut(payment_store,
                           Entry(invoice.payment_hash, rid, FALSE, now, price))
    IN  IF ~invoice.ok
        THEN /\ resp' = [NoResp EXCEPT !.ep = ep, !.id = rawId, !.status = 503,
                            !.error = "Payment service unavailable",
                            !.backend = Reached(MOCK_MODE, ln)]
             /\ UNCHANGED <<payment_store, file, issued, minted>>
        ELSE /\ issued < MaxInvoices
             /\ payment_store' = store2
             /\ file' = save_payments(store2)
             /\ issued' = issued + 1
             /\ minted' = minted \cup {macaroon}
             /\ resp' = [NoResp EXCEPT !.ep = ep, !.id = rawId, !.status = 402,
                            !.error = "Payment required",
                            !.payment_hash = invoice.payment_hash,
                            !.macaroon = macaroon,
                            !.amount_sats = invoice.amount,
                            !.backend = Reached(MOCK_MODE, ln)]

\* A reply that deletes the record of a token it refuses.
Reply_forgetting(ep, rawId, cred, status, error, ph, ln, content) ==
    LET store2 == IF status \in {401, 403}
                  THEN Filter(payment_store,
                              Keys(payment_store) \ {cred.tok.payment_hash})
                  ELSE payment_store
    IN  /\ resp' = [NoResp EXCEPT !.ep = ep, !.id = rawId, !.cred = cred,
                       !.status = status, !.error = error, !.payment_hash = ph,
                       !.backend = IF status # 404 /\ AsksBackend(cred, SERVER_SECRET, MOCK_MODE)
                                   THEN ln ELSE "n/a",
                       !.content = content]
        /\ payment_store' = store2
        /\ file' = IF store2 # payment_store THEN save_payments(store2) ELSE file
        /\ UNCHANGED <<issued, minted>>

Reply(ep, rawId, cred, status, error, ph, ln, content) ==
    /\ resp' = [NoResp EXCEPT !.ep = ep, !.id = rawId, !.cred = cred,
                   !.status = status, !.error = error, !.payment_hash = ph,
                   !.backend = IF status # 404 /\ AsksBackend(cred, SERVER_SECRET, MOCK_MODE)
                               THEN ln ELSE "n/a",
                   !.content = content]
    /\ UNCHANGED <<payment_store, file, issued, minted>>

\* GET /api/skills/<skill_id>
get_skill(rawId, cred, ln, contentOk) ==
    LET skill_id == Upper(rawId)
        result == verify_l402_auth(cred, SERVER_SECRET, now, MOCK_MODE,
                                   payment_store, ln)
    IN  IF skill_id \notin DOMAIN SKILL_REGISTRY
        THEN Reply("skill", rawId, cred, 404, "Skill not found", NoHash, ln, "n/a")
        ELSE IF cred.form # "absent"
        THEN IF result.valid
             THEN IF result.skill_id # skill_id
                  THEN Reply("skill", rawId, cred, 403,
                             "Token not valid for this skill", NoHash, ln, "n/a")
                  ELSE IF ~contentOk
                  THEN Reply("skill", rawId, cred, 500, "Content unavailable",
                             NoHash, ln, "unavailable")
                  ELSE Reply("skill", rawId, cred, 200, "",
                             result.payment_hash, ln, "served")
             ELSE Reply("skill", rawId, cred, 401, result.error, NoHash, ln, "n/a")
        ELSE Challenge("skill", rawId, skill_id, SKILL_REGISTRY[skill_id], ln)

\* get_trajectory that verifies the header before it looks the id up.
get_trajectory_verify_first(rawId, cred, ln) ==
    LET traj_id == Upper(rawId)
        result == verify_l402_auth(cred, SERVER_SECRET, now, MOCK_MODE,
                                   payment_store, ln)
    IN  IF cred.form # "absent" /\ ~(result.valid /\ result.skill_id = traj_id)
        THEN Reply("traj", rawId, cred, 401, "Invalid authorization",
                   NoHash, ln, "n/a")
        ELSE IF traj_id \notin DOMAIN TRAJECTORY_REGISTRY
        THEN Reply("traj", rawId, cred, 404, "Trajectory not found", NoHash, ln, "n/a")
        ELSE IF cred.form # "absent"
        THEN Reply("traj", rawId, cred, 200, "", NoHash, ln, "served")
        ELSE Challenge("traj", rawId, traj_id, TRAJECTORY_REGISTRY[traj_id], ln)

\* GET /api/trajectories/<traj_id>.  The body of a 200 is the trajectory
\* file's content (or the registry fallback): it carries no payment_hash.
get_trajectory(rawId, cred, ln) ==
    LET traj_id == Upper(rawId)
        result == verify_l402_auth(cred, SERVER_SECRET, now, MOCK_MODE,
                                   payment_store, ln)
    IN  IF traj_id \notin DOMAIN TRAJECTORY_REGISTRY
        THEN Reply("traj", rawId, cred, 404, "Trajectory not found", NoHash, ln, "n/a")
        ELSE IF cred.form # "absent"
        THEN IF result.valid /\ result.skill_id = traj_id
             THEN Reply("traj", rawId, cred, 200, "", NoHash, ln, "served")
             ELSE Reply("traj", rawId, cred, 401, "Invalid authorization",
                        NoHash, ln, "n/a")
        ELSE Challenge("traj", rawId, traj_id, TRAJECTORY_REGISTRY[traj_id], ln)

\* GET /api/payment/<payment_hash>/status
payment_status(h, ln) ==
    LET paid == check_invoice_paid(h, MOCK_MODE, payment_store, ln)
        known == h \in Keys(payment_store)
    IN  /\ resp' = [NoResp EXCEPT !.ep = "status", !.status = 200,
                       !.payment_hash = h, !.paid = paid,
                       !.id = IF known THEN StoreGet(payment_store, h).skill_id ELSE "",
                       !.amount_sats = IF known THEN StoreGet(payment_store, h).amount ELSE 0,
                       !.backend = ln]
        /\ UNCHANGED <<payment_store, file, issued, minted>>

RECURSIVE PaidSats(_)
PaidSats(store) ==
    IF store = <<>> THEN 0
    ELSE (IF Head(store).paid THEN Head(store).amount ELSE 0) + PaidSats(Tail(store))

\* GET /api/stats: the sweep, then the totals over what is left.
stats ==
    LET store2 == cleanup_store(payment_store, now)
    IN  /\ payment_store' = store2
        /\ file' = cleanup_file(payment_store, file, now)
        /\ resp' = [NoResp EXCEPT !.ep = "stats", !.status = 200,
                       !.count = Cardinality({i \in 1..Len(store2) : store2[i].paid}),
                       !.amount_sats = PaidSats(store2)]
        /\ UNCHANGED <<issued, minted>>

-----------------------------------------------------------------------------
(* The system: one request at a time (a handler runs when the last response *)
(* has gone out) and the clock in between                                  *)

Init ==
    /\ MOCK_MODE \in BOOLEAN
    /\ SERVER_SECRET = "secret"
    /\ now = 0
    /\ ticks = 0
    /\ payment_store = <<>>
    /\ file = NoFile
    /\ issued = 0
    /\ minted = {}
    /\ resp = NoResp
    /\ threads = <<>>

GetSkill ==
    /\ resp = NoResp
    /\ \E rawId \in RequestIds, ln \in LnAnswers(MOCK_MODE), contentOk \in BOOLEAN :
         \E cred \in {NoCred} \cup CredsFor(SKILL_REGISTRY, Upper(rawId)) :
            get_skill(rawId, cred, ln, contentOk)
    /\ UNCHANGED <<MOCK_MODE, SERVER_SECRET, now, ticks, threads>>

GetTrajectory ==
    /\ resp = NoResp
    /\ \E rawId \in RequestIds, ln \in LnAnswers(MOCK_MODE) :
         \E cred \in {NoCred} \cup CredsFor(TRAJECTORY_REGISTRY, Upper(rawId)) :
            get_trajectory(rawId, cred, ln)
    /\ UNCHANGED <<MOCK_MODE, SERVER_SECRET, now, ticks, threads>>

PaymentStatus ==
    /\ resp = NoResp
    /\ \E h \in Keys(payment_store) \cup {ForeignHash}, ln \in LnAnswers(MOCK_MODE) :
            payment_status(h, ln)
    /\ UNCHANGED <<MOCK_MODE, SERVER_SECRET, now, ticks, threads>>

Stats ==
    /\ resp = NoResp
    /\ stats
    /\ UNCHANGED <<MOCK_MODE, SERVER_SECRET, now, ticks, threads>>

\* Time passes.
Tick ==
    /\ resp = NoResp
    /\ ticks < MaxTicks
    /\ \E d \in Jumps : now' = now + d
    /\ ticks' = ticks + 1
    /\ UNCHANGED <<MOCK_MODE, SERVER_SECRET, payment_store, file, issued, minted, resp, threads>>

\* The response has gone out; the server takes the next request.
Respond ==
    /\ resp # NoResp
    /\ resp' = NoResp
    /\ UNCHANGED <<MOCK_MODE, SERVER_SECRET, now, ticks, payment_store, file, issued, minted, threads>>

Next == GetSkill \/ GetTrajectory \/ PaymentStatus \/ Stats \/ Tick \/ Respond

Spec == Init /\ [][Next]_vars

-----------------------------------------------------------------------------
(* Restarts.  The process stops between two requests and is started again  *)
(* with the same environment (SERVER_SECRET configured): the module level  *)
(* sets payment_store = {} and __main__ calls load_payments().  Macaroons  *)
(* handed out stay with their clients.                                     *)

Restart ==
    /\ resp = NoResp
    /\ payment_store' = load_payments(file, <<>>)
    /\ resp' = [NoResp EXCEPT !.ep = "restart"]
    /\ UNCHANGED <<MOCK_MODE, SERVER_SECRET, now, ticks, file, issued, minted, threads>>

NextRestart == Next \/ Restart

SpecRestart == Init /\ [][NextRestart]_vars

-----------------------------------------------------------------------------
(* A flush that fails.  save_payments() raises (the directory cannot be    *)
(* made, the file cannot be opened, the disk is full) while a challenge is *)
(* being issued; nothing catches it, so Flask answers 500.  The invoice    *)
(* exists at the backend, the record is already in the dict, and the file  *)
(* is untouched (open failed) or truncated with part of the text written.  *)

FailedWrites(f, store) ==
    {f} \cup {[exists |-> TRUE, data |-> SubSeq(Dump(store), 1, k)] : k \in 0..Len(store)}

ChallengeFlushFails(ep, rawId, ln) ==
    LET rid == Upper(rawId)
        price == RegistryOf(ep)[rid]
        invoice == create_invoice(price, Memo(ep, rid), MOCK_MODE, now, issued, ln)
        store2 == StorePut(payment_store,
                           Entry(invoice.payment_hash, rid, FALSE, now, price))
    IN  /\ invoice.ok
        /\ issued < MaxInvoices
        /\ payment_store' = store2
        /\ file' \in FailedWrites(file, store2)
        /\ issued' = issued + 1
        /\ resp' = [NoResp EXCEPT !.ep = ep, !.id = rawId, !.status = 500,
                       !.error = "Internal Server Error",
                       !.backend = Reached(MOCK_MODE, ln)]
        /\ UNCHANGED minted

FlushFails ==
    /\ resp = NoResp
    /\ \E ep \in {"skill", "traj"}, rawId \in RequestIds, ln \in LnAnswers(MOCK_MODE) :
          /\ Upper(rawId) \in DOMAIN RegistryOf(ep)
          /\ ChallengeFlushFails(ep, rawId, ln)
    /\ UNCHANGED <<MOCK_MODE, SERVER_SECRET, now, ticks, threads>>

NextFlushFails == Next \/ FlushFails

SpecFlushFails == Init /\ [][NextFlushFails]_vars

-----------------------------------------------------------------------------
(* A crash during the flush.  The process is killed while a challenge is   *)
(* in save_payments(): before open() (the file is as it was), after open() *)
(* truncated the file, with part of the text written, or with all of it.   *)
(* It is then started again and load_payments() reads what is there.       *)

InterruptedWrites(f, store) ==
    {f} \cup {[exists |-> TRUE, data |-> SubSeq(Dump(store), 1, k)] : k \in 0..Len(Dump(store))}

ChallengeCrashes(ep, rawId, ln) ==
    LET rid == Upper(rawId)
        price == RegistryOf(ep)[rid]
        invoice == create_invoice(price, Memo(ep, rid), MOCK_MODE, now, issued, ln)
        store2 == StorePut(payment_store,
                           Entry(invoice.payment_hash, rid, FALSE, now, price))
    IN  /\ invoice.ok
        /\ issued < MaxInvoices
        /\ issued' = issued + 1
        /\ \E f \in InterruptedWrites(file, store2) :
              /\ file' = f
              /\ payment_store' = load_payments(f, <<>>)
        /\ resp' = [NoResp EXCEPT !.ep = "crash", !.id = rawId,
                       !.backend = Reached(MOCK_MODE, ln)]
        /\ UNCHANGED minted

CrashInFlush ==
    /\ resp = NoResp
    /\ \E ep \in {"skill", "traj"}, rawId \in RequestIds, ln \in LnAnswers(MOCK_MODE) :
          /\ Upper(rawId) \in DOMAIN RegistryOf(ep)
          /\ ChallengeCrashes(ep, rawId, ln)
    /\ UNCHANGED <<MOCK_MODE, SERVER_SECRET, now, ticks, threads>>

NextCrash == Next \/ CrashInFlush

SpecCrash == Init /\ [][NextCrash]_vars

-----------------------------------------------------------------------------
(* Around the expiry of a macaroon: the server issued one challenge for    *)
(* K01 at MintTime and the clock now stands within a second of the         *)
(* macaroon's 86400 s; gated requests follow.                              *)

MintTimes == 0..Scale

BoundaryOffsets == (0 - Scale)..Scale

FirstHash(mock, t0) ==
    create_invoice(SKILL_REGISTRY["K01"], Memo("skill", "K01"), mock, t0, 0,
                   "unpaid").payment_hash

InitExpiry ==
    /\ MOCK_MODE \in BOOLEAN
    /\ SERVER_SECRET = "secret"
    /\ ticks = 0
    /\ \E t0 \in MintTimes, d \in BoundaryOffsets :
          LET h == FirstHash(MOCK_MODE, t0)
              store == <<Entry(h, "K01", FALSE, t0, SKILL_REGISTRY["K01"])>>
          IN  /\ now = t0 + TTL * Scale + d
              /\ payment_store = store
              /\ file = save_payments(store)
              /\ minted = {create_macaroon(SERVER_SECRET, h, "K01", t0)}
    /\ issued = 1
    /\ resp = NoResp
    /\ threads = <<>>

NextExpiry == GetSkill \/ GetTrajectory \/ Respond

SpecExpiry == InitExpiry /\ [][NextExpiry]_vars

-----------------------------------------------------------------------------
(* Overlapping requests.  The server holds no lock: threads 1..NThreads    *)
(* each run the challenge branch of a gated endpoint and one more runs the *)
(* sweep of /api/stats, one statement at a time.  A dict operation is      *)
(* atomic (the interpreter lock); save_payments is not: it opens the file  *)
(* (truncating it), json.dump iterates the dict into the file object's     *)
(* buffer, and leaving the with block writes the buffer at offset 0.       *)

NoThread ==
    [pc |-> "start", ep |-> "", rid |-> "", h |-> NoHash, expired |-> {},
     snap |-> <<>>, buf |-> <<>>, status |-> 0]

Handlers == 1..NThreads

Sweeper == NThreads + 1

\* A record that was stored at time 0 and is past the TTL at OverlapTime.
OldHash(mock) == IF mock THEN Sha256OfText(Memo("skill", "K01"), 0) ELSE LnHash(1)

OldStore(mock) == <<Entry(OldHash(mock), "K01", FALSE, 0, SKILL_REGISTRY["K01"])>>

OverlapTime == TTL * Scale + 1

\* write(buf) at offset 0 of a file that holds data.
Overlay(buf, data) == buf \o SubSeq(data, Len(buf) + 1, Len(data))

InitConc ==
    /\ MOCK_MODE \in BOOLEAN
    /\ SERVER_SECRET = "secret"
    /\ now = OverlapTime
    /\ ticks = 0
    /\ \E old \in BOOLEAN :
          /\ payment_store = IF old THEN OldStore(MOCK_MODE) ELSE <<>>
          /\ file = IF old THEN save_payments(OldStore(MOCK_MODE)) ELSE NoFile
          /\ issued = IF old THEN 1 ELSE 0
          /\ minted = IF old
                      THEN {create_macaroon(SERVER_SECRET, OldHash(MOCK_MODE), "K01", 0)}
                      ELSE {}
    /\ resp = NoResp
    /\ threads = [i \in {Sweeper} \cup Handlers |-> NoThread]

\* create_invoice and create_macaroon of the challenge branch.
Invoice(i) ==
    /\ threads[i].pc = "start"
    /\ \E ep \in {"skill", "traj"}, ln \in LnAnswers(MOCK_MODE) :
         \E rid \in DOMAIN RegistryOf(ep) :
            LET invoice == create_invoice(RegistryOf(ep)[rid], Memo(ep, rid),
                                          MOCK_MODE, now, issued, ln)
            IN  IF ~invoice.ok
                THEN /\ threads' = [threads EXCEPT ![i].pc = "done", ![i].ep = ep,
                                        ![i].rid = rid, ![i].status = 503]
                     /\ UNCHANGED <<issued, minted>>
                ELSE /\ threads' = [threads EXCEPT ![i].pc = "put", ![i].ep = ep,
                                        ![i].rid = rid, ![i].h = invoice.payment_hash]
                     /\ issued' = issued + 1
                     /\ minted' = minted \cup
                            {create_macaroon(SERVER_SECRET, invoice.payment_hash, rid, now)}
    /\ UNCHANGED <<MOCK_MODE, SERVER_SECRET, now, ticks, payment_store, file, resp>>

\* payment_store[invoice["payment_hash"]] = {...}
Put(i) ==
    /\ threads[i].pc = "put"
    /\ payment_store' = StorePut(payment_store,
                            Entry(threads[i].h, threads[i].rid, FALSE, now,
                                  RegistryOf(threads[i].ep)[threads[i].rid]))
    /\ threads' = [threads EXCEPT ![i].pc = "open"]
    /\ UNCHANGED <<MOCK_MODE, SERVER_SECRET, now, ticks, file, issued, minted, resp>>

\* The sweep's list comprehension: the keys past the TTL.
Scan ==
    /\ threads[Sweeper].pc = "start"
    /\ threads' = [threads EXCEPT ![Sweeper].pc = "del",
                       ![Sweeper].expired = ExpiredKeys(payment_store, now)]
    /\ UNCHANGED <<MOCK_MODE, SERVER_SECRET, now, ticks, payment_store, file, issued,
                   minted, resp>>

\* for h in expired: del payment_store[h]; then save_payments() if any.
Delete ==
    /\ threads[Sweeper].pc = "del"
    /\ payment_store' = Filter(payment_store,
                               Keys(payment_store) \ threads[Sweeper].expired)
    /\ threads' = [threads EXCEPT ![Sweeper].pc =
                       IF threads[Sweeper].expired # {} THEN "open" ELSE "done",
                       ![Sweeper].status = 200]
    /\ UNCHANGED <<MOCK_MODE, SERVER_SECRET, now, ticks, file, issued, minted, resp>>

\* save_payments: open(PAYMENT_STORE_FILE, "w") creates or truncates the file.
Open(i) ==
    /\ threads[i].pc = "open"
    /\ file' = [exists |-> TRUE, data |-> <<>>]
    /\ threads' = [threads EXCEPT ![i].pc = "dump"]
    /\ UNCHANGED <<MOCK_MODE, SERVER_SECRET, now, ticks, payment_store, issued, minted,
                   resp>>

\* json.dump starts to iterate the dict.
DumpBegin(i) ==
    /\ threads[i].pc = "dump"
    /\ threads' = [threads EXCEPT ![i].pc = "dumping", ![i].snap = payment_store]
    /\ UNCHANGED <<MOCK_MODE, SERVER_SECRET, now, ticks, payment_store, file, issued,
                   minted, resp>>

\* json.dump ends.  If the dict changed size meanwhile the iteration raises
\* RuntimeError with part of the text in the buffer; if it changed and kept
\* its size, the text is that of the dict before or after.
DumpEnd(i) ==
    /\ threads[i].pc = "dumping"
    /\ IF Len(payment_store) # Len(threads[i].snap)
       THEN \E k \in 0..Len(threads[i].snap) :
               threads' = [threads EXCEPT ![i].pc = "close", ![i].status = 500,
                              ![i].buf = SubSeq(threads[i].snap, 1, k)]
       ELSE \E text \in {Dump(threads[i].snap), Dump(payment_store)} :
               threads' = [threads EXCEPT ![i].pc = "close", ![i].buf = text]
    /\ UNCHANGED <<MOCK_MODE, SERVER_SECRET, now, ticks, payment_store, file, issued,
                   minted, resp>>

\* Leaving the with block flushes the buffer and closes the file; the
\* handler then answers (402, or 500 after the RuntimeError).
Close(i) ==
    /\ threads[i].pc = "close"
    /\ file' = [exists |-> TRUE, data |-> Overlay(threads[i].buf, file.data)]
    /\ threads' = [threads EXCEPT ![i].pc = "done",
                       ![i].status = IF threads[i].status = 500 THEN 500
                                     ELSE IF i = Sweeper THEN 200 ELSE 402]
    /\ UNCHANGED <<MOCK_MODE, SERVER_SECRET, now, ticks, payment_store, issued, minted,
                   resp>>

NextConc ==
    \/ \E i \in Handlers : Invoice(i)
    \/ \E i \in Handlers : Put(i)
    \/ Scan
    \/ Delete
    \/ \E i \in {Sweeper} \cup Handlers : Open(i)
    \/ \E i \in {Sweeper} \cup Handlers : DumpBegin(i)
    \/ \E i \in {Sweeper} \cup Handlers : DumpEnd(i)
    \/ \E i \in {Sweeper} \cup Handlers : Close(i)

SpecConc == InitConc /\ [][NextConc]_vars

-----------------------------------------------------------------------------
(* What the last response says about the request it answers *)

Gated == resp.ep \in {"skill", "traj"}

\* The last request named a resource of its endpoint.
KnownResource == Gated /\ Upper(resp.id) \in DOMAIN RegistryOf(resp.ep)

\* The last request carried a header that parsed into a macaroon and a preimage.
Presented == Gated /\ resp.cred.form = "l402"

\* The macaroon's signature is the server's MAC over its three claim fields.
SignedByServer(tok) ==
    tok.signature = HMAC(SERVER_SECRET, tok.payment_hash, tok.skill_id, tok.timestamp)

\* now - issued_at <= TTL, in seconds.
WithinTTL(tok) == now - tok.timestamp * Scale <= TTL * Scale

\* SHA-256(preimage) = payment_hash.
PreimageMatches(cred) ==
    IsHex(cred.pre) /\ Sha256OfHex(cred.pre) = cred.tok.payment_hash

\* The backend (LNbits, or the store in mock mode) reported the hash paid
\* to the last request.
ReportedPaid(h) ==
    IF MOCK_MODE
    THEN h \in Keys(payment_store) /\ StoreGet(payment_store, h).paid
    ELSE resp.backend = "paid"

\* What verify_l402_auth makes of the last request's header.
Verdict ==
    verify_l402_auth(resp.cred, SERVER_SECRET, now, MOCK_MODE, payment_store,
                     resp.backend)

-----------------------------------------------------------------------------
(* Claims *)

\* C1: a gated request returns the resource content only if the token's
\* signature recomputes under the server secret, now - issued_at <= 86400 s,
\* the token's resource id is the upper-cased requested id, and the
\* preimage hashes to payment_hash or the backend/store reports it paid.
C1_ContentOnlyForValidPaidToken ==
    (Gated /\ resp.status = 200) =>
        /\ Presented
        /\ SignedByServer(resp.cred.tok)
        /\ WithinTTL(resp.cred.tok)
        /\ resp.cred.tok.skill_id = Upper(resp.id)
        /\ (PreimageMatches(resp.cred) \/ ReportedPaid(resp.cred.tok.payment_hash))

\* C1 witness: content served on the strength of the backend's word, at
\* the last instant of the token's life.
C1_Witness ==
    /\ Gated /\ resp.status = 200
    /\ ~PreimageMatches(resp.cred)
    /\ now - resp.cred.tok.timestamp * Scale = TTL * Scale

\* C2 (as claimed): after a gated request succeeds, the record stored
\* under the token's payment_hash has paid = true.
C2_ServedRecordIsPaid ==
    (Gated /\ resp.status = 200
        /\ resp.cred.tok.payment_hash \in Keys(payment_store)) =>
        StoreGet(payment_store, resp.cred.tok.payment_hash).paid

\* C3 (as claimed): on both gated endpoints a credential that passes
\* Verify but is bound to another resource than the one requested is
\* answered 403.
C3_MismatchIsForbidden ==
    (KnownResource /\ Presented /\ Verdict.valid
        /\ Verdict.skill_id # Upper(resp.id)) =>
        resp.status = 403

\* C4 (as claimed): a correctly signed token past its TTL fails with
\* TokenExpired whatever the preimage (seen at the skill endpoint, which
\* relays Verify's reason).
C4_ExpiryBeforePaymentProof ==
    (KnownResource /\ resp.ep = "skill" /\ Presented
        /\ SignedByServer(resp.cred.tok) /\ ~WithinTTL(resp.cred.tok)) =>
        (resp.status = 401 /\ resp.error = "Token expired")

\* C5 (as claimed): the challenge of a resource priced P carries an invoice
\* of P sats, and a retry with the issued token and a preimage hashing to
\* its payment_hash, within the TTL, returns 200 echoing the payment_hash
\* (the content store permitting).
C5_ChallengeThenRetrySucceeds ==
    /\ (Gated /\ resp.status = 402) =>
            resp.amount_sats = RegistryOf(resp.ep)[Upper(resp.id)]
    /\ (KnownResource /\ Presented
            /\ resp.cred.tok \in minted
            /\ resp.cred.tok.skill_id = Upper(resp.id)
            /\ resp.cred.pre = PreimageOf(resp.cred.tok.payment_hash)
            /\ WithinTTL(resp.cred.tok)
            /\ resp.content # "unavailable") =>
            (resp.status = 200 /\ resp.payment_hash = resp.cred.tok.payment_hash)

\* C7 (as claimed): a minted token with a field changed, so that its
\* signature is no longer the MAC of its claim, fails with BadSignature
\* (seen at the skill endpoint, which relays Verify's reason).
C7_TamperedIsBadSignature ==
    (KnownResource /\ resp.ep = "skill" /\ Presented
        /\ ~SignedByServer(resp.cred.tok)) =>
        (resp.status = 401 /\ resp.error = "Invalid macaroon signature")

\* C8 (as claimed): on both gated endpoints, a header that is present and
\* fails Verify is answered 401 with Verify's own reason.
C8_FailureIs401WithReason ==
    (KnownResource /\ resp.cred.form # "absent" /\ ~Verdict.valid) =>
        (resp.status = 401 /\ resp.error = Verdict.error)

\* A step that answers a request without credential for a registered
\* resource: the challenge branch.
ChallengeStep ==
    /\ resp = NoResp
    /\ resp'.ep \in {"skill", "traj"}
    /\ resp'.cred = NoCred
    /\ Upper(resp'.id) \in DOMAIN RegistryOf(resp'.ep)

\* C9 (as claimed): when CreateInvoice succeeds with hash h for resource R,
\* the response is 402 with a token bound to (h, R), the store holds
\* (R, unpaid, price(R)) under h, exactly one record was added and no
\* other record changed.
C9_ChallengeAddsOneRecord ==
    [][(ChallengeStep /\ resp'.backend # "down") =>
         LET h == resp'.payment_hash
             R == Upper(resp'.id)
         IN  /\ resp'.status = 402
             /\ resp'.macaroon.payment_hash = h
             /\ resp'.macaroon.skill_id = R
             /\ h \in Keys(payment_store')
             /\ StoreGet(payment_store', h).skill_id = R
             /\ ~StoreGet(payment_store', h).paid
             /\ StoreGet(payment_store', h).amount = RegistryOf(resp'.ep)[R]
             /\ Len(payment_store') = Len(payment_store) + 1
             /\ SubSeq(payment_store', 1, Len(payment_store)) = payment_store
      ]_vars

\* C10: if CreateInvoice fails, the challenge request returns 503, mints no
\* token and leaves the store and the persisted file as they were; a
\* record is added only by a request whose invoice call was answered.
C10_NoInvoiceNoRecord ==
    [][/\ (ChallengeStep /\ resp'.backend = "down") =>
            /\ resp'.status = 503
            /\ resp'.macaroon = NoToken
            /\ UNCHANGED <<payment_store, file, minted, issued>>
       /\ (Keys(payment_store') \ Keys(payment_store) # {}) =>
            (resp'.status = 402 /\ resp'.backend # "down")
      ]_vars

\* The threads that stored a record, and all threads having finished.
Recorded == {i \in Handlers : threads[i].h # NoHash}

AllDone == \A i \in DOMAIN threads : threads[i].pc = "done"

\* C6 (as claimed): when handlers concurrently record challenges for
\* distinct payment hashes, with a sweep alongside, then after all have
\* finished the store holds exactly their records and the file holds the
\* same records, well formed.
C6_ConcurrentPutsAllPersist ==
    (/\ AllDone
     /\ Recorded = Handlers
     /\ \A i, j \in Recorded : i # j => threads[i].h # threads[j].h) =>
        /\ Keys(payment_store) = {threads[i].h : i \in Recorded}
        /\ file.exists
        /\ WellFormed(file.data)
        /\ Parse(file.data) = payment_store

\* C10 witness: a challenge request answered 503.
C10_Witness == Gated /\ resp.status = 503 /\ resp.backend = "down"

\* C11: a request for an id that is not in the registry after upper-casing
\* is answered 404, asks the backend nothing, mints no token and leaves the
\* store and the file as they were, with or without a credential header.
C11_UnknownIdIs404 ==
    [][(/\ resp = NoResp
        /\ resp'.ep \in {"skill", "traj"}
        /\ Upper(resp'.id) \notin DOMAIN RegistryOf(resp'.ep)) =>
            /\ resp'.status = 404
            /\ resp'.backend = "n/a"
            /\ resp'.macaroon = NoToken
            /\ UNCHANGED <<payment_store, file, issued, minted>>
      ]_vars

\* C11 witness: a 404 to a request that carried a minted macaroon while the
\* store held a record.
C11_Witness ==
    /\ Gated /\ ~KnownResource
    /\ resp.status = 404
    /\ resp.cred.form = "l402"
    /\ payment_store # <<>>

\* C12: for a correctly signed token with a valid payment proof, Verify
\* succeeds exactly when now - issued_at <= 86400 s and fails with
\* "Token expired" otherwise; the skill endpoint answers 401 exactly in
\* the latter case.
C12_ExpiryBoundary ==
    (/\ KnownResource /\ Presented
     /\ SignedByServer(resp.cred.tok)
     /\ IsHex(resp.cred.pre)
     /\ (PreimageMatches(resp.cred) \/ ReportedPaid(resp.cred.tok.payment_hash))) =>
        /\ Verdict.valid <=> WithinTTL(resp.cred.tok)
        /\ ~WithinTTL(resp.cred.tok) => Verdict.error = "Token expired"
        /\ resp.ep = "skill" =>
              IF WithinTTL(resp.cred.tok)
              THEN resp.status \in {200, 403, 500}
              ELSE resp.status = 401 /\ resp.error = "Token expired"
        /\ resp.ep = "traj" =>
              (resp.status = 200 <=>
                 (WithinTTL(resp.cred.tok) /\ resp.cred.tok.skill_id = Upper(resp.id)))

\* C12 witness: a minted token with its true preimage, presented at
\* issued_at + 86400 s + 1 s, is refused as expired.
C12_Witness ==
    /\ resp.ep = "skill" /\ Presented
    /\ resp.cred.tok \in minted
    /\ PreimageMatches(resp.cred)
    /\ now - resp.cred.tok.timestamp * Scale = (TTL + 1) * Scale
    /\ resp.status = 401 /\ resp.error = "Token expired"

\* C13 (as claimed): in mock mode the preimage create_invoice derives for
\* an invoice hashes to the invoice's payment_hash, so that presenting it
\* with the issued token passes the payment-proof step of Verify.
C13_MockPreimageMatches ==
    (/\ MOCK_MODE
     /\ KnownResource /\ Presented
     /\ resp.cred.tok \in minted
     /\ resp.cred.pre = mock_preimage(resp.cred.tok.payment_hash)) =>
        /\ Sha256OfHex(resp.cred.pre) = resp.cred.tok.payment_hash
        /\ Verdict.error # "Payment not verified"
        /\ resp.error # "Payment not verified"

\* The handler threads whose record has been put into the store.
Stored == {i \in Recorded : threads[i].pc \notin {"start", "put"}}

\* C14 (as claimed): two concurrent challenges for the same resource get
\* distinct payment hashes and leave two distinct records in the store,
\* also in mock mode when both read the same clock value.
C14_ConcurrentChallengesDistinct ==
    \A i, j \in Stored :
        (i # j /\ threads[i].ep = threads[j].ep /\ threads[i].rid = threads[j].rid) =>
            /\ threads[i].h # threads[j].h
            /\ {threads[i].h, threads[j].h} \subseteq Keys(payment_store)
            /\ Cardinality({k \in 1..Len(payment_store) :
                               payment_store[k].h \in {threads[i].h, threads[j].h}}) = 2

\* C15: with requests executed one at a time, after every step the file
\* (when there is one) parses to the in-memory store, and a restart that
\* reloads it yields the records held before the restart.
C15_FileEqualsStore ==
    [][/\ load_payments(file', <<>>) = payment_store'
       /\ file'.exists => (WellFormed(file'.data) /\ Parse(file'.data) = payment_store')
       /\ resp'.ep = "restart" => payment_store' = payment_store
      ]_vars

\* C15 witness: a restart after a sweep removed one record and kept
\* another.
C15_Witness ==
    /\ resp.ep = "restart"
    /\ Len(payment_store) = 1
    /\ Cardinality({m.payment_hash : m \in minted}) = 2

\* C16 (as claimed): when the flush fails while a challenge is issued, the
\* request ends in an error that carries neither invoice nor token and the
\* in-memory store is as it was before the request.
C16_FailedFlushRollsBack ==
    [][(/\ ChallengeStep
        /\ resp'.status = 500) =>
            /\ resp'.macaroon = NoToken
            /\ resp'.payment_hash = NoHash
            /\ minted' = minted
            /\ payment_store' = payment_store
      ]_vars

\* A record no older than 86400 s.
Fresh(e) == now - e.created <= TTL * Scale

\* C17: the sweep removes exactly the records older than 86400 s and keeps
\* the others as they were and in their order; afterwards neither the
\* store nor the file holds a record older than that.
C17_SweepRemovesExactlyExpired ==
    [][(resp = NoResp /\ resp'.ep = "stats") =>
          /\ payment_store' = SelectSeq(payment_store, Fresh)
          /\ \A k \in 1..Len(payment_store') : Fresh(payment_store'[k])
          /\ file'.exists =>
                /\ WellFormed(file'.data)
                /\ \A k \in 1..Len(Parse(file'.data)) : Fresh(Parse(file'.data)[k])
      ]_vars

\* C17 witness: a sweep has removed one record and kept one that is
\* exactly 86400 s old.
C17_Witness ==
    /\ resp.ep = "stats"
    /\ Len(payment_store) = 1
    /\ now - payment_store[1].created = TTL * Scale
    /\ Cardinality({m.payment_hash : m \in minted}) = 2
    /\ file = save_payments(payment_store)

\* C18: a gated request that ends 401 or 403 leaves the store and the file
\* as they were, creates no invoice and mints no token.
C18_RefusalChangesNothing ==
    [][(/\ resp = NoResp
        /\ resp'.ep \in {"skill", "traj"}
        /\ resp'.status \in {401, 403}) =>
            UNCHANGED <<payment_store, file, issued, minted>>
      ]_vars

\* C18 witness: a 401 for a minted token whose payment the live backend
\* was asked about, while the store holds the token's record.
C18_Witness ==
    /\ Gated /\ resp.status = 401
    /\ resp.cred.tok \in minted
    /\ resp.backend = "unpaid"
    /\ resp.cred.tok.payment_hash \in Keys(payment_store)

\* C19: for a signed token with a hex preimage that does not hash to
\* payment_hash, when the status check does not confirm the payment
\* (backend down or answering unpaid; in mock mode record absent or
\* unpaid), Verify fails with "Payment not verified" and the response is a
\* 401 without content.
C19_FallbackFailsClosed ==
    (/\ KnownResource /\ Presented
     /\ SignedByServer(resp.cred.tok)
     /\ IsHex(resp.cred.pre)
     /\ ~PreimageMatches(resp.cred)
     /\ ~ReportedPaid(resp.cred.tok.payment_hash)) =>
        /\ ~Verdict.valid
        /\ Verdict.error = "Payment not verified"
        /\ resp.status = 401
        /\ resp.content # "served"
        /\ resp.ep = "skill" => resp.error = "Payment not verified"

\* C19 witness: the live backend could not be reached and the request was
\* refused.
C19_Witness ==
    /\ Gated /\ Presented
    /\ resp.cred.tok \in minted
    /\ ~MOCK_MODE /\ resp.backend = "down"
    /\ resp.status = 401

\* C20 (as claimed): when the process stops during a flush while the
\* store held records, the file holds the complete previous or the
\* complete new contents, and the restart reloads every record the store
\* held before the crash.
C20_FlushAtomicUnderCrash ==
    [][(resp = NoResp /\ resp'.ep = "crash" /\ payment_store # <<>>) =>
          /\ file'.exists => WellFormed(file'.data)
          /\ file' # file => Keys(payment_store) \subseteq Keys(Parse(file'.data))
          /\ Keys(payment_store) \subseteq Keys(payment_store')
      ]_vars

\* C21: without a restart, every macaroon handed out whose
\* now - issued_at <= 86400 s still has its record in the store: the
\* record is created no earlier than issued_at and the sweep uses the
\* same threshold.
C21_RecordOutlivesToken ==
    \A m \in minted :
        WithinTTL(m) =>
            /\ m.payment_hash \in Keys(payment_store)
            /\ StoreGet(payment_store, m.payment_hash).skill_id = m.skill_id
            /\ StoreGet(payment_store, m.payment_hash).created >= m.timestamp * Scale

\* C21 witness: a sweep has just deleted the record of an expired macaroon
\* and kept that of one which is exactly 86400 s old.
C21_Witness ==
    /\ resp.ep = "stats"
    /\ \E m \in minted :
          /\ now - m.timestamp * Scale = TTL * Scale
          /\ m.payment_hash \in Keys(payment_store)
    /\ \E m \in minted :
          /\ ~WithinTTL(m)
          /\ m.payment_hash \notin Keys(payment_store)

=============================================================================
